---- MODULE Spec2Model ----
(***************************************************************************)
(* Model of src/src/main.ts: the action that loads a composed supergraph   *)
(* schema and rewrites it into a federation subgraph schema.               *)
(*                                                                         *)
(* A schema is a record                                                    *)
(*   [types, directives, schemaDirectives]                                 *)
(* types            the type map, in insertion order: a sequence of type   *)
(*                  nodes [name, kind, directives, fields, values, types]  *)
(* directives       the directive definitions, by name                     *)
(* schemaDirectives the directive usages of the schema definition          *)
(* A directive usage is [name, arguments], an argument [name, value].      *)
(* Union members (the types entry of a union node) are held by name, the    *)
(* way the printer writes them.  The root operation types of a composed    *)
(* supergraph are the object types Query, Mutation and Subscription.       *)
(*                                                                         *)
(* mapSchema (@graphql-tools/utils) is modelled by its contract: a mapper  *)
(* is looked up by the most specific MapperKind of the node, a mapper      *)
(* result of undefined keeps the node, null deletes it and anything else   *)
(* replaces it; fields are visited only by field mappers, of which the     *)
(* program registers none.                                                 *)
(***************************************************************************)
EXTENDS Naturals, Sequences, FiniteSets

VARIABLES pc, compositionResult, schema, entityNames, outputFile, failed

vars == <<pc, compositionResult, schema, entityNames, outputFile, failed>>

\* Bounds of the model.
MaxTypes == 1
MaxUsages == 2
MaxErrors == 2

(***************************************************************************)
(* Helpers                                                                 *)
(***************************************************************************)
Range(s) == {s[i] : i \in DOMAIN s}

\* String.prototype.startsWith
StartsWith(s, prefix) ==
    /\ Len(s) >= Len(prefix)
    /\ SubSeq(s, 1, Len(prefix)) = prefix

\* An array slot holding undefined (Map.get of an absent key).
Undefined == [name |-> "<undefined>", value |-> "<undefined>"]

Arg(n, v) == [name |-> n, value |-> v]

Directive(n, args) == [name |-> n, arguments |-> args]

TypeNode(n, k, ds, fs, vs, ts) ==
    [name |-> n, kind |-> k, directives |-> ds, fields |-> fs, values |-> vs,
     types |-> ts]

Member(n, ds) == [name |-> n, directives |-> ds]

RootNames == {"Query", "Mutation", "Subscription"}

\* MapperKind.ROOT_OBJECT: the schema's query, mutation or subscription type.
IsRootObject(type) == type.kind = "object" /\ type.name \in RootNames

(***************************************************************************)
(* The documents the composer can hand over (bounded).                     *)
(***************************************************************************)
JoinType == Directive("join__type", <<Arg("graph", "A")>>)

JoinTypeKey == Directive("join__type", <<Arg("graph", "A"), Arg("key", "id")>>)

JoinTypeKeyResolvable ==
    Directive("join__type",
              <<Arg("graph", "B"), Arg("key", "sku"), Arg("resolvable", "false")>>)

Tag == Directive("tag", <<Arg("name", "t")>>)

JoinField == Directive("join__field", <<Arg("graph", "A")>>)

JoinEnumValue == Directive("join__enumValue", <<Arg("graph", "A")>>)

TypeUsages == {JoinType, JoinTypeKey, JoinTypeKeyResolvable, Tag}

FieldUsages == {JoinField, Tag}

ValueUsages == {JoinEnumValue, Tag}

\* The named types a composed document is drawn from, in type-map order.
Catalog ==
    << [name |-> "Query", kind |-> "object"],
       [name |-> "Mutation", kind |-> "object"],
       [name |-> "Product", kind |-> "object"],
       [name |-> "FieldSet", kind |-> "object"],
       [name |-> "Node", kind |-> "interface"],
       [name |-> "Color", kind |-> "enum"],
       [name |-> "join__Graph", kind |-> "enum"],
       [name |-> "join__FieldSet", kind |-> "scalar"],
       [name |-> "join__ContextArgument", kind |-> "input"] >>

\* The catalog entries of a document: Query and at most MaxTypes others.
TypeSets ==
    {S \in SUBSET (1..Len(Catalog)) : 1 \in S /\ Cardinality(S) <= MaxTypes + 1}

HasFields(kind) == kind \in {"object", "interface", "input"}

\* A placement puts one directive usage on a type (on = "type") or on the
\* type's field or enum value (on = "member").
PlacementsOn(S) ==
    {[type |-> i, on |-> "type", usage |-> u] : i \in S, u \in TypeUsages}
    \cup {[type |-> i, on |-> "member", usage |-> u] :
             i \in {j \in S : HasFields(Catalog[j].kind)}, u \in FieldUsages}
    \cup {[type |-> i, on |-> "member", usage |-> u] :
             i \in {j \in S : Catalog[j].kind = "enum"}, u \in ValueUsages}

SlotOrder(p) == 2 * p.type + (IF p.on = "type" THEN 0 ELSE 1)

\* At most MaxUsages placements, listed slot by slot.
Annotations(S) ==
    UNION {{ps \in [1..n -> PlacementsOn(S)] :
               \A j \in 1..(n - 1) : SlotOrder(ps[j]) <= SlotOrder(ps[j + 1])} :
           n \in 0..MaxUsages}

RECURSIVE UsagesOn(_, _, _)
UsagesOn(ps, i, on) ==
    IF ps = <<>> THEN <<>>
    ELSE (IF Head(ps).type = i /\ Head(ps).on = on THEN <<Head(ps).usage>> ELSE <<>>)
             \o UsagesOn(Tail(ps), i, on)

ComposedType(i, ps) ==
    LET c == Catalog[i]
    IN TypeNode(c.name, c.kind, UsagesOn(ps, i, "type"),
                IF HasFields(c.kind)
                THEN <<Member("id", UsagesOn(ps, i, "member"))>> ELSE <<>>,
                IF c.kind = "enum"
                THEN <<Member("A", UsagesOn(ps, i, "member"))>> ELSE <<>>,
                <<>>)

\* The type map of the entries S, in catalog order.
RECURSIVE ComposedTypes(_, _, _)
ComposedTypes(i, S, ps) ==
    IF i > Len(Catalog) THEN <<>>
    ELSE (IF i \in S THEN <<ComposedType(i, ps)>> ELSE <<>>)
             \o ComposedTypes(i + 1, S, ps)

\* The directive definitions of a composed supergraph.
ComposedDirectives == <<"join__type", "join__field", "join__enumValue", "tag">>

ComposedSchemaDirectives ==
    << Directive("link", <<Arg("url", "https://specs.apollo.dev/link/v1.0")>>),
       Directive("link", <<Arg("url", "https://specs.apollo.dev/join/v0.3")>>) >>

Document(S, ps) ==
    [types |-> ComposedTypes(1, S, ps), directives |-> ComposedDirectives,
     schemaDirectives |-> ComposedSchemaDirectives]

Messages == {"m1", "m2"}

ErrorReports == UNION {[1..n -> Messages] : n \in 1..MaxErrors}

NoSchema == [types |-> <<>>, directives |-> <<>>, schemaDirectives |-> <<>>]

(***************************************************************************)
(* The pipeline's functions                                                *)
(***************************************************************************)
\* Mutant of joinMessages: only the first message is reported.
firstMessage(errors) == IF errors = <<>> THEN "" ELSE errors[1]

\* errors.map(error => error.message).join("\n")
RECURSIVE joinMessages(_)
joinMessages(errors) ==
    IF errors = <<>> THEN ""
    ELSE IF Len(errors) = 1 THEN errors[1]
    ELSE errors[1] \o "\n" \o joinMessages(Tail(errors))

setFederationSchemaDirective(s) ==
    [s EXCEPT !.schemaDirectives =
        <<Directive("link",
                    <<Arg("url", "https://specs.apollo.dev/federation/v2.5")>>)>>]

\* Mutant of findJoinDirective: the last join__type usage is taken.
findLastJoinDirective(type) ==
    LET idx == {i \in DOMAIN type.directives :
                   type.directives[i].name = "join__type"}
    IN IF idx = {} THEN {}
       ELSE {type.directives[CHOOSE i \in idx : \A j \in idx : j <= i]}

\* directives.find(directive => directive.name.value === "join__type"):
\* {} when there is none, else {the first one}.
findJoinDirective(type) ==
    LET idx == {i \in DOMAIN type.directives :
                   type.directives[i].name = "join__type"}
    IN IF idx = {} THEN {}
       ELSE {type.directives[CHOOSE i \in idx : \A j \in idx : i <= j]}

\* new Map(arguments.map(arg => [arg.name.value, arg])): the last argument of
\* a name wins.
argumentMap(arguments) ==
    [n \in {arguments[i].name : i \in DOMAIN arguments} |->
        LET idx == {i \in DOMAIN arguments : arguments[i].name = n}
        IN arguments[CHOOSE i \in idx : \A j \in idx : j <= i]]

mapGet(map, key) == IF key \in DOMAIN map THEN map[key] ELSE Undefined

generateFederationDirective(joinTypeArguments) ==
    IF "key" \in DOMAIN joinTypeArguments
    THEN Directive("key", <<mapGet(joinTypeArguments, "key"),
                            mapGet(joinTypeArguments, "resolvable")>>)
    ELSE Directive("shareable", <<>>)

\* The federation directive of an object type with a join__type marker.
federationDirectiveOf(type) ==
    LET joinTypeDirective == CHOOSE d \in findJoinDirective(type) : TRUE
    IN generateFederationDirective(argumentMap(joinTypeDirective.arguments))

\* The MapperKind.OBJECT_TYPE mapper of addFederationDirectives.
mapObjectType(type) ==
    IF type.kind # "object" \/ findJoinDirective(type) = {} THEN type
    ELSE [type EXCEPT !.directives = Append(@, federationDirectiveOf(type))]

\* Mutant of collectEntityNames: every object type with a marker is pushed.
collectMarkedNames(types) ==
    LET marked == SelectSeq(types, LAMBDA type :
                      type.kind = "object" /\ findJoinDirective(type) # {})
    IN [i \in DOMAIN marked |-> marked[i].name]

\* The names the mapper pushes, in type-map order.
RECURSIVE collectEntityNames(_)
collectEntityNames(types) ==
    IF types = <<>> THEN <<>>
    ELSE LET type == Head(types)
             pushed == /\ type.kind = "object"
                       /\ findJoinDirective(type) # {}
                       /\ federationDirectiveOf(type).name = "key"
         IN (IF pushed THEN <<type.name>> ELSE <<>>)
                \o collectEntityNames(Tail(types))

addFederationDirectives(s) ==
    [schema |-> [s EXCEPT !.types = [i \in DOMAIN s.types |-> mapObjectType(s.types[i])]],
     entityNames |-> collectEntityNames(s.types)]

\* Mutant of removeJoinDirectives: only the first join__ usage is dropped.
removeFirstJoinDirective(directives) ==
    LET idx == {i \in DOMAIN directives : StartsWith(directives[i].name, "join__")}
    IN IF idx = {} THEN directives
       ELSE LET first == CHOOSE i \in idx : \A j \in idx : i <= j
            IN SubSeq(directives, 1, first - 1)
                   \o SubSeq(directives, first + 1, Len(directives))

\* directives.filter(directive => !directive.name.value.startsWith("join__"))
removeJoinDirectives(directives) ==
    SelectSeq(directives, LAMBDA d : ~StartsWith(d.name, "join__"))

\* MapperKind.TYPE on every named type, MapperKind.ENUM_VALUE on every value
\* of every enum type; no mapper visits a field.
removeJoinDirectivesUsages(s) ==
    [s EXCEPT !.types =
        [i \in DOMAIN s.types |->
            [s.types[i] EXCEPT
                !.directives = removeJoinDirectives(@),
                !.values = [j \in DOMAIN @ |->
                               [@[j] EXCEPT !.directives = removeJoinDirectives(@)]]]]]

\* Mutant of removeFederationDirectivesFromRootObjects: only Query is cleared.
clearQueryDirectives(s) ==
    [s EXCEPT !.types =
        [i \in DOMAIN s.types |->
            IF s.types[i].kind = "object" /\ s.types[i].name = "Query"
            THEN [s.types[i] EXCEPT !.directives = <<>>]
            ELSE s.types[i]]]

\* MapperKind.ROOT_OBJECT replaces each root type by one without directives.
removeFederationDirectivesFromRootObjects(s) ==
    [s EXCEPT !.types =
        [i \in DOMAIN s.types |->
            IF IsRootObject(s.types[i])
            THEN [s.types[i] EXCEPT !.directives = <<>>]
            ELSE s.types[i]]]

\* Mutant of removeJoinTypes: the scalar mapper is missing.
removeJoinEnumsAndDirectives(s) ==
    [s EXCEPT
        !.types = SelectSeq(@, LAMBDA type :
                     ~(type.kind = "enum" /\ StartsWith(type.name, "join__"))),
        !.directives = SelectSeq(@, LAMBDA name : ~StartsWith(name, "join__"))]

\* MapperKind.ENUM_TYPE and SCALAR_TYPE return null for a join__ name, as does
\* MapperKind.DIRECTIVE; every other node is kept.
removeJoinTypes(s) ==
    [s EXCEPT
        !.types = SelectSeq(@, LAMBDA type :
                     ~(type.kind \in {"enum", "scalar"} /\ StartsWith(type.name, "join__"))),
        !.directives = SelectSeq(@, LAMBDA name : ~StartsWith(name, "join__"))]

\* schema.getType(name): {} when the type map has no such key.
getType(s, name) == {type \in Range(s.types) : type.name = name}

\* typeMap[name] = type: an existing key keeps its place, a new one is last.
setType(types, type) ==
    IF \E i \in DOMAIN types : types[i].name = type.name
    THEN [i \in DOMAIN types |->
             IF types[i].name = type.name THEN type ELSE types[i]]
    ELSE Append(types, type)

\* normalizeSchema, lines 52-60: the two scalars and the _Entity union.
addFederationTypes(s, names) ==
    LET anyScalar == TypeNode("_Any", "scalar", <<>>, <<>>, <<>>, <<>>)
        fieldSetScalar == TypeNode("FieldSet", "scalar", <<>>, <<>>, <<>>, <<>>)
        \* entityNames.map(name => resultSchema.getType(name))
        members == [i \in DOMAIN names |->
                       IF getType(s, names[i]) = {} THEN "<undefined>" ELSE names[i]]
        entityUnion == TypeNode("_Entity", "union", <<>>, <<>>, <<>>, members)
    IN [s EXCEPT !.types = setType(setType(setType(@, anyScalar), fieldSetScalar),
                                   entityUnion)]

addEntitiesQueryToSchema(s) ==
    [s EXCEPT !.types =
        [i \in DOMAIN s.types |->
            IF s.types[i].kind = "object" /\ s.types[i].name = "Query"
            THEN [s.types[i] EXCEPT !.fields =
                     IF \E j \in DOMAIN @ : @[j].name = "_entities"
                     THEN [j \in DOMAIN @ |->
                              IF @[j].name = "_entities"
                              THEN Member("_entities", <<>>) ELSE @[j]]
                     ELSE Append(@, Member("_entities", <<>>))]
            ELSE s.types[i]]]

addFederationDirectivesToSchema(s) ==
    [s EXCEPT !.directives = @ \o <<"key", "shareable">>]

(***************************************************************************)
(* run() and normalizeSchema() as a sequence of steps                      *)
(***************************************************************************)
Init ==
    /\ pc = "start"
    \* composeServices' result: errors is undefined ({}) or an array ({msgs}).
    /\ \/ \E S \in TypeSets : \E ps \in Annotations(S) :
              compositionResult = [errors |-> {}, schema |-> {Document(S, ps)}]
       \/ \E e \in ErrorReports :
              compositionResult = [errors |-> {e}, schema |-> {}]
    /\ schema = NoSchema
    /\ entityNames = <<>>
    /\ outputFile = {}
    /\ failed = {}

\* loadSchema returns the composed schema.
LoadSchema ==
    /\ pc = "start"
    /\ compositionResult.errors = {}
    /\ schema' = CHOOSE d \in compositionResult.schema : TRUE
    /\ pc' = "loaded"
    /\ UNCHANGED <<compositionResult, entityNames, outputFile, failed>>

\* loadSchema throws; run() catches the error and reports it.
LoadSchemaThrows ==
    /\ pc = "start"
    /\ compositionResult.errors # {}
    /\ failed' = {joinMessages(CHOOSE e \in compositionResult.errors : TRUE)}
    /\ pc' = "failed"
    /\ UNCHANGED <<compositionResult, schema, entityNames, outputFile>>

SetFederationSchemaDirective ==
    /\ pc = "loaded"
    /\ schema' = setFederationSchemaDirective(schema)
    /\ pc' = "annotated"
    /\ UNCHANGED <<compositionResult, entityNames, outputFile, failed>>

AddFederationDirectives ==
    /\ pc = "annotated"
    /\ schema' = addFederationDirectives(schema).schema
    /\ entityNames' = addFederationDirectives(schema).entityNames
    /\ pc' = "classified"
    /\ UNCHANGED <<compositionResult, outputFile, failed>>

RemoveJoinDirectivesUsages ==
    /\ pc = "classified"
    /\ schema' = removeJoinDirectivesUsages(schema)
    /\ pc' = "stripped"
    /\ UNCHANGED <<compositionResult, entityNames, outputFile, failed>>

RemoveFederationDirectivesFromRootObjects ==
    /\ pc = "stripped"
    /\ schema' = removeFederationDirectivesFromRootObjects(schema)
    /\ pc' = "sanitized"
    /\ UNCHANGED <<compositionResult, entityNames, outputFile, failed>>

RemoveJoinTypes ==
    /\ pc = "sanitized"
    /\ schema' = removeJoinTypes(schema)
    /\ pc' = "eliminated"
    /\ UNCHANGED <<compositionResult, entityNames, outputFile, failed>>

AddFederationTypes ==
    /\ pc = "eliminated"
    /\ schema' = addFederationTypes(schema, entityNames)
    /\ pc' = "typed"
    /\ UNCHANGED <<compositionResult, entityNames, outputFile, failed>>

AddEntitiesQueryToSchema ==
    /\ pc = "typed"
    /\ schema' = addEntitiesQueryToSchema(schema)
    /\ pc' = "queried"
    /\ UNCHANGED <<compositionResult, entityNames, outputFile, failed>>

AddFederationDirectivesToSchema ==
    /\ pc = "queried"
    /\ schema' = addFederationDirectivesToSchema(schema)
    /\ pc' = "normalized"
    /\ UNCHANGED <<compositionResult, entityNames, outputFile, failed>>

\* writeFileSync(outputFile, printSchemaWithDirectives(resultSchema))
WriteOutput ==
    /\ pc = "normalized"
    /\ outputFile' = {schema}
    /\ pc' = "written"
    /\ UNCHANGED <<compositionResult, schema, entityNames, failed>>

Next ==
    \/ LoadSchema
    \/ LoadSchemaThrows
    \/ SetFederationSchemaDirective
    \/ AddFederationDirectives
    \/ RemoveJoinDirectivesUsages
    \/ RemoveFederationDirectivesFromRootObjects
    \/ RemoveJoinTypes
    \/ AddFederationTypes
    \/ AddEntitiesQueryToSchema
    \/ AddFederationDirectivesToSchema
    \/ WriteOutput

Spec == Init /\ [][Next]_vars

TypeOK == pc \in {"start", "failed", "loaded", "annotated", "classified", "stripped",
                  "sanitized", "eliminated", "typed", "queried", "normalized", "written"}

(***************************************************************************)
(* Vocabulary of the properties                                            *)
(***************************************************************************)
\* The document the composer handed over.
Composed == CHOOSE d \in compositionResult.schema : TRUE

Final == pc \in {"normalized", "written"}

AfterStripper == pc \in {"stripped", "sanitized", "eliminated", "typed", "queried",
                         "normalized", "written"}

HasArgument(usage, n) == \E i \in DOMAIN usage.arguments : usage.arguments[i].name = n

\* ds[i] is the first join__type usage of the list ds.
IsFirstMarker(ds, i) ==
    /\ ds[i].name = "join__type"
    /\ \A j \in 1..(i - 1) : ds[j].name # "join__type"

HasMarker(type) == \E i \in DOMAIN type.directives : type.directives[i].name = "join__type"

\* The first join__type usage of the type has a key argument.
FirstMarkerHasKey(type) ==
    \E i \in DOMAIN type.directives :
        IsFirstMarker(type.directives, i) /\ HasArgument(type.directives[i], "key")

KeyedNames(doc) ==
    {type.name : type \in {t \in Range(doc.types) : t.kind = "object" /\ FirstMarkerHasKey(t)}}

\* The member names of the _Entity union of the document.
EntityMembers(doc) ==
    UNION {Range(u.types) : u \in {t \in Range(doc.types) : t.name = "_Entity" /\ t.kind = "union"}}

IsObjectOf(doc, n) == \E t \in Range(doc.types) : t.name = n /\ t.kind = "object"

SynthesizedNames == {"_Any", "FieldSet", "_Entity"}

JoinPrefixed(n) == Len(n) >= 6 /\ SubSeq(n, 1, 6) = "join__"

(***************************************************************************)
(* C1                                                                      *)
(***************************************************************************)
\* C1 as stated: in the final document the _Entity union's members are exactly
\* the object type names whose join__type marker had a key argument, and each
\* of them is an object type of the final type map.
C1_EntityUnionAsStated ==
    Final =>
        /\ EntityMembers(schema) = KeyedNames(Composed)
        /\ \A n \in EntityMembers(schema) : IsObjectOf(schema, n)

\* C1 amended: the same, for every input document in which no object type
\* with a key marker bears one of the synthesized names _Any, FieldSet, _Entity
\* (the final type map holds the synthesized type under such a name).
C1_EntityUnion ==
    (Final /\ KeyedNames(Composed) \cap SynthesizedNames = {}) =>
        /\ EntityMembers(schema) = KeyedNames(Composed)
        /\ \A n \in EntityMembers(schema) : IsObjectOf(schema, n)

C1_Witness ==
    /\ Final
    /\ KeyedNames(Composed) \cap SynthesizedNames = {}
    /\ "Product" \in EntityMembers(schema)
    /\ \E t \in Range(Composed.types) :
          t.kind = "object" /\ HasMarker(t) /\ ~FirstMarkerHasKey(t)

(***************************************************************************)
(* C2                                                                      *)
(***************************************************************************)
ProductScenario ==
    /\ {t.name : t \in Range(Composed.types)} = {"Query", "Product"}
    /\ \A t \in Range(Composed.types) :
          /\ t.name = "Product" => t.directives = <<JoinTypeKey>>
          /\ t.name = "Query" => t.directives = <<>>

\* C2: for the one-entity schema (Product with join__type(graph: A, key: "id")),
\* the final Product carries a key usage whose key value is carried by an
\* argument named fields, and _Entity is the union of exactly Product.
C2_ProductKeyFields ==
    (Final /\ ProductScenario) =>
        /\ EntityMembers(schema) = {"Product"}
        /\ \A t \in Range(schema.types) :
              t.name = "Product" =>
                  \E i \in DOMAIN t.directives :
                      /\ t.directives[i].name = "key"
                      /\ t.directives[i].arguments # <<>>
                      /\ t.directives[i].arguments[1] = Arg("fields", "id")

(***************************************************************************)
(* C3                                                                      *)
(***************************************************************************)
AfterSanitizer == {"sanitized", "eliminated", "typed", "queried", "normalized", "written"}

\* C3: from RootSanitizer on, through the final document, every root operation
\* type carries zero directive usages; and the RootSanitizer step leaves every
\* non-root type as it was.
C3_RootPurity ==
    [][ /\ pc' \in AfterSanitizer =>
              \A t \in Range(schema'.types) :
                  (t.kind = "object" /\ t.name \in RootNames) => t.directives = <<>>
        /\ (pc = "stripped" /\ pc' = "sanitized") =>
              /\ Len(schema'.types) = Len(schema.types)
              /\ \A i \in DOMAIN schema.types :
                    ~(schema.types[i].kind = "object" /\ schema.types[i].name \in RootNames)
                        => schema'.types[i] = schema.types[i] ]_vars

C3_Witness ==
    /\ pc = "sanitized"
    /\ \E t \in Range(Composed.types) : t.name \in RootNames /\ FirstMarkerHasKey(t)
    /\ \E t \in Range(schema.types) : t.name \notin RootNames /\ t.directives # <<>>

(***************************************************************************)
(* C4                                                                      *)
(***************************************************************************)
\* C4: the classifier decides by the first join__type usage only: an object
\* type whose first marker has no key gets exactly one appended shareable usage
\* without arguments and is not registered, whatever later markers say; an
\* object type without marker is left as it was.
C4_FirstMarkerDecides ==
    pc = "classified" =>
        \A i \in DOMAIN Composed.types :
            LET before == Composed.types[i]
                after == schema.types[i]
            IN before.kind = "object" =>
                  /\ ~HasMarker(before) => after = before
                  /\ (HasMarker(before) /\ ~FirstMarkerHasKey(before)) =>
                        /\ after.directives =
                              Append(before.directives, Directive("shareable", <<>>))
                        /\ before.name \notin Range(entityNames)

C4_Witness ==
    /\ pc = "classified"
    /\ \E t \in Range(Composed.types) :
          /\ t.kind = "object"
          /\ Len(t.directives) = 2
          /\ t.directives[1].name = "join__type" /\ ~HasArgument(t.directives[1], "key")
          /\ t.directives[2].name = "join__type" /\ HasArgument(t.directives[2], "key")

(***************************************************************************)
(* C5                                                                      *)
(***************************************************************************)
NoJoinUsage(ds) == \A i \in DOMAIN ds : ~JoinPrefixed(ds[i].name)

\* C5: after the stripper no directive usage whose name begins with join__
\* remains on any type, enum value or field definition.
C5_NoJoinUsageAnywhere ==
    AfterStripper =>
        \A t \in Range(schema.types) :
            /\ NoJoinUsage(t.directives)
            /\ \A v \in Range(t.values) : NoJoinUsage(v.directives)
            /\ \A f \in Range(t.fields) : NoJoinUsage(f.directives)

(***************************************************************************)
(* C6                                                                      *)
(***************************************************************************)
Unprefixed(nodes) == SelectSeq(nodes, LAMBDA t : ~JoinPrefixed(t.name))

UnprefixedNames(names) == SelectSeq(names, LAMBDA n : ~JoinPrefixed(n))

Prune(s) == removeJoinTypes(removeJoinDirectivesUsages(s))

\* C7: pruning (stripper, then eliminator) is idempotent: applied twice to a
\* document it yields what one application yields.
C7_PruneIdempotent == Prune(Prune(schema)) = Prune(schema)

C7_Witness ==
    /\ pc = "loaded"
    /\ \E t \in Range(schema.types) :
          Len(t.directives) = 2 /\ \A i \in DOMAIN t.directives : JoinPrefixed(t.directives[i].name)
    /\ Len(Prune(schema).types) < Len(schema.types)

(***************************************************************************)
(* C8                                                                      *)
(***************************************************************************)
ArgumentNamed(usage, n) ==
    usage.arguments[CHOOSE i \in DOMAIN usage.arguments : usage.arguments[i].name = n]

FirstMarker(type) ==
    type.directives[CHOOSE i \in DOMAIN type.directives : IsFirstMarker(type.directives, i)]

\* C8: when the first marker of an object type has a key, the key usage is
\* appended after the existing usages and its arguments are exactly the key
\* argument followed by the resolvable argument if the marker has one: one
\* entry without resolvable, two with it.
C8_KeyArguments ==
    pc = "classified" =>
        \A i \in DOMAIN Composed.types :
            LET before == Composed.types[i]
                after == schema.types[i]
                marker == FirstMarker(before)
            IN (before.kind = "object" /\ FirstMarkerHasKey(before)) =>
                  after.directives =
                      Append(before.directives,
                             Directive("key",
                                 IF HasArgument(marker, "resolvable")
                                 THEN <<ArgumentNamed(marker, "key"),
                                        ArgumentNamed(marker, "resolvable")>>
                                 ELSE <<ArgumentNamed(marker, "key")>>))

(***************************************************************************)
(* C9                                                                      *)
(***************************************************************************)
\* The messages of a report, each but the last followed by a line break.
RECURSIVE Lines(_)
Lines(msgs) ==
    IF Len(msgs) = 1 THEN msgs[1]
    ELSE Lines(SubSeq(msgs, 1, Len(msgs) - 1)) \o "\n" \o msgs[Len(msgs)]

\* C9: with an error report from the composer, the run stops at the failure
\* reported with all messages joined, no pipeline stage runs and no file is
\* written; the file is written only once the whole pipeline has completed.
C9_CompositionFailure ==
    [][ /\ compositionResult.errors # {} =>
              /\ pc' = "failed"
              /\ failed' = {Lines(CHOOSE e \in compositionResult.errors : TRUE)}
              /\ schema' = NoSchema /\ entityNames' = <<>>
              /\ outputFile' = {}
        /\ outputFile' # outputFile =>
              /\ pc = "normalized" /\ pc' = "written"
              /\ compositionResult.errors = {} /\ failed' = {} ]_vars

C9_Witness ==
    /\ pc = "failed"
    /\ failed # {}
    /\ \E e \in compositionResult.errors : Len(e) = 2 /\ e[1] # e[2]

(***************************************************************************)
(* C10                                                                     *)
(***************************************************************************)
\* C10: in the final document an object type is a member of the _Entity union
\* if and only if it carries a key usage, root operation types included.
C10_MemberIffKey ==
    Final =>
        \A t \in Range(schema.types) :
            t.kind = "object" =>
                (t.name \in EntityMembers(schema)
                    <=> \E i \in DOMAIN t.directives : t.directives[i].name = "key")
====
